---- MODULE Spec2Model ----
(***************************************************************************)
(* Model of the publish command of smaug (cli/src/commands/publish.rs).    *)
(* Publish::run stages the project into the DragonRuby installation        *)
(* directory, runs dragonruby-publish, copies builds, logs and exceptions  *)
(* back into the project and removes the staging directory.  Every         *)
(* statement of run that touches the filesystem or the process is one      *)
(* action; .expect()/.unwrap() on an Err is a panic that ends the run      *)
(* without a CommandResult.                                                *)
(***************************************************************************)
EXTENDS Integers, Sequences, FiniteSets, TLC

\* ---------------------------------------------------------------- bounds
MaxRuns == 2

\* ------------------------------------------------------------- processes
\* the invocations of the command; Runners are those the caller serializes
Procs == {1, 2}

Runners == {1}

\* ------------------------------------------------------------ file system
\* A path is a sequence of components.  The file system maps every existing
\* path to its entry: a directory or a file with contents.
Entry(kind, a, b, n) == [kind |-> kind, a |-> a, b |-> b, n |-> n]

Dir == Entry("dir", "", "", 0)

IsPrefix(p, q) == Len(p) <= Len(q) /\ SubSeq(q, 1, Len(p)) = p

Parent(p) == SubSeq(p, 1, Len(p) - 1)

FileName(p) == p[Len(p)]

Join(p, name) == Append(p, name)

Ancestors(p) == {SubSeq(p, 1, i) : i \in 1..Len(p)}

Under(f, p) == {q \in DOMAIN f : IsPrefix(p, q)}

IsDir(f, p) == p \in DOMAIN f /\ f[p] = Dir

FilesUnder(f, p) == {q \in Under(f, p) : f[q] # Dir}

\* the files below p, by their path relative to p
RelFiles(f, p) == {<<SubSeq(q, Len(p) + 1, Len(q)), f[q]>> : q \in FilesUnder(f, p)}

\* std::fs::canonicalize: "." and ".." are resolved, the result must exist
RECURSIVE Normalize(_)
Normalize(p) ==
    IF p = <<>> THEN <<>>
    ELSE LET h == Normalize(Parent(p))
             c == FileName(p)
         IN  IF c = "." THEN h
             ELSE IF c = ".." THEN (IF h = <<>> THEN <<>> ELSE Parent(h))
             ELSE Append(h, c)

Canonicalize(f, p) ==
    LET n == Normalize(p)
    IN  [ok |-> n \in DOMAIN f, path |-> n]

\* rm_rf::ensure_removed: the path and everything below it is gone; a path
\* that does not exist is not an error
EnsureRemoved(f, p) == [q \in DOMAIN f \ Under(f, p) |-> f[q]]

\* smaug::util::dir::copy_directory, restricted to the entries K of the
\* source tree (K is the whole tree when the copy succeeds)
Rebase(q, src, dst) == dst \o SubSeq(q, Len(src) + 1, Len(q))

\* a copy that merges: a file the destination already has is kept
CopyEntriesKeepExisting(f, src, dst, K) ==
    LET targets == {Rebase(q, src, dst) : q \in K}
        made    == IF K = {} THEN {} ELSE Ancestors(dst)
    IN  [p \in DOMAIN f \cup targets \cup made |->
            IF p \in DOMAIN f THEN f[p]
            ELSE IF p \in targets THEN f[src \o SubSeq(p, Len(dst) + 1, Len(p))]
            ELSE Dir]

CopyEntries(f, src, dst, K) ==
    LET targets == {Rebase(q, src, dst) : q \in K}
        made    == IF K = {} THEN {} ELSE Ancestors(dst)
    IN  [p \in DOMAIN f \cup targets \cup made |->
            IF p \in targets THEN f[src \o SubSeq(p, Len(dst) + 1, Len(p))]
            ELSE IF p \in DOMAIN f THEN f[p]
            ELSE Dir]

\* a file where a directory is needed, or a directory where a file is copied
CopyConflict(f, src, dst) ==
    \/ \E a \in Ancestors(dst) : a \in DOMAIN f /\ f[a] # Dir
    \/ \E q \in Under(f, src) :
          LET t == Rebase(q, src, dst)
          IN  t \in DOMAIN f /\ ((f[t] = Dir) # (f[q] = Dir))

CopyDirectory(f, src, dst) ==
    IF ~IsDir(f, src) \/ CopyConflict(f, src, dst)
    THEN [ok |-> FALSE, fs |-> f]
    ELSE [ok |-> TRUE, fs |-> CopyEntries(f, src, dst, Under(f, src))]

\* what an interrupted copy can leave behind: the tree down to some depth
\* (a directory is created before anything is copied into it)
PartialCopies(f, src) ==
    {{q \in Under(f, src) : Len(q) - Len(src) < d} : d \in 0..2}

\* a file is written, its missing parent directories are created
WriteFile(f, p, e) ==
    [q \in DOMAIN f \cup Ancestors(p) |->
        IF q = p THEN e ELSE IF q \in DOMAIN f THEN f[q] ELSE Dir]

RECURSIVE WriteAll(_, _)
WriteAll(f, W) ==
    IF W = {} THEN f
    ELSE LET w == CHOOSE x \in W : TRUE
         IN  WriteAll(WriteFile(f, w[1], w[2]), W \ {w})

\* ------------------------------------------------------------ environment
CurrentDir == <<"home", "game">>

ProjectName == "Asteroids"

InstalledVersion == "4.8"

MissingVersion == "9.9"

InstallDir == <<"tc">>

PublishName == "dragonruby-publish"

ConfigFile(name, version) == Entry("config", name, version, 0)

Garbage == Entry("garbage", "", "", 0)

Source == Entry("source", "", "", 0)

\* the command lines tried: the "path" argument (absent, the project, an
\* alias of the project, a directory that does not exist), the json and
\* quiet flags, and the arguments passed through to DragonRuby
Input(d, j, q, a) == [directory |-> d, json |-> j, quiet |-> q, args |-> a]

Inputs ==
    { Input(<<>>, FALSE, FALSE, <<>>),
      Input(<<"home", "game">>, TRUE, FALSE, <<"--package">>),
      Input(<<"home", ".", "game">>, FALSE, TRUE, <<>>),
      Input(<<"home", "game">>, TRUE, TRUE, <<>>),
      Input(<<"home", "nogame">>, FALSE, FALSE, <<>>) }

\* what dragonruby-publish may write while it runs (its working directory is
\* the installation directory, staged is the staged project): a log, an
\* exception report, and a build either below the installation directory or
\* below the staged project
ToolchainOutputs(bin, staged) ==
    { S \cup B :
        S \in SUBSET { Join(Join(staged, "logs"), "log.txt"),
                       Join(Join(staged, "exceptions"), "exception.txt") },
        B \in { {},
                { Join(Join(bin, "builds"), "game-html5.zip") },
                { Join(Join(staged, "builds"), "game.zip") } } }

Output(n) == Entry("output", "", "", n)

\* ------------------------------------------------------------------ state
VARIABLES
    fs,          \* the file system
    epoch,       \* number of invocations started so far
    pc,          \* position of each invocation in Publish::run
    inp,         \* matches: path, json, quiet, DRAGONRUBY_ARGS
    path,        \* canonicalized project directory
    config,      \* loaded configuration
    bin_dir,     \* dragonruby.install_dir()
    build_dir,   \* bin_dir.join(path.file_name())
    result,      \* exit status of the process
    outcome,     \* the CommandResult returned by run
    run,         \* history: number of this invocation
    fs0,         \* history: the file system when the invocation started
    steps,       \* history: statements completed by this invocation
    failed,      \* history: the statement that panicked, if any
    spawned,     \* history: the process started by this invocation
    wrote,       \* history: the files the process wrote
    outcomes,    \* history: number of CommandResults returned
    op           \* history: the last file system operation applied on its own

vars == <<fs, epoch, pc, inp, path, config, bin_dir, build_dir, result, outcome,
          run, fs0, steps, failed, spawned, wrote, outcomes, op>>

locals == <<inp, path, config, bin_dir, build_dir, result, outcome,
            run, fs0, spawned, wrote, outcomes>>

NoInput == Input(<<>>, FALSE, FALSE, <<>>)

NoConfig == [name |-> "", version |-> ""]

NoOutcome == [kind |-> "none", name |-> "", path |-> <<>>]

NoProcess == [bin |-> <<>>, cwd |-> <<>>, argv |-> <<>>, stdout |-> ""]

Fs0 == [p \in {<<>>} |-> Dir]

NoOp == [kind |-> "none", ok |-> TRUE, src |-> <<>>, dst |-> <<>>, before |-> Fs0,
         again |-> FALSE, first |-> Fs0, okFirst |-> TRUE]

\* the project before the first publish: sources, a configuration (for the
\* installed version, for a version that is not installed, or unparsable)
\* and the log of an earlier publish; DragonRuby is installed in InstallDir
InitialConfigs ==
    { ConfigFile(ProjectName, InstalledVersion),
      ConfigFile(ProjectName, MissingVersion),
      Garbage }

InitialTree(cfg) ==
    [p \in { <<"home">>, CurrentDir, Join(CurrentDir, "Smaug.toml"),
             Join(CurrentDir, "main.rb"), Join(CurrentDir, "logs"),
             Join(Join(CurrentDir, "logs"), "old.txt"),
             InstallDir, Join(InstallDir, PublishName) } |->
        IF p = Join(CurrentDir, "Smaug.toml") THEN cfg
        ELSE IF p = Join(CurrentDir, "main.rb") THEN Source
        ELSE IF p = Join(Join(CurrentDir, "logs"), "old.txt") THEN Output(0)
        ELSE IF p = Join(InstallDir, PublishName) THEN Source
        ELSE Dir]

Init ==
    /\ \E cfg \in InitialConfigs : fs = InitialTree(cfg)
    /\ epoch = 0
    /\ pc = [r \in Procs |-> "idle"]
    /\ inp = [r \in Procs |-> NoInput]
    /\ path = [r \in Procs |-> <<>>]
    /\ config = [r \in Procs |-> NoConfig]
    /\ bin_dir = [r \in Procs |-> <<>>]
    /\ build_dir = [r \in Procs |-> <<>>]
    /\ result = [r \in Procs |-> "none"]
    /\ outcome = [r \in Procs |-> NoOutcome]
    /\ run = [r \in Procs |-> 0]
    /\ fs0 = [r \in Procs |-> Fs0]
    /\ steps = [r \in Procs |-> <<>>]
    /\ failed = [r \in Procs |-> ""]
    /\ spawned = [r \in Procs |-> NoProcess]
    /\ wrote = [r \in Procs |-> {}]
    /\ outcomes = [r \in Procs |-> 0]
    /\ op = NoOp

\* ---------------------------------------------------------------- control
\* the statement at pc[r] completed; control moves to next
Goto(r, next) ==
    /\ steps' = [steps EXCEPT ![r] = Append(@, pc[r])]
    /\ pc' = [pc EXCEPT ![r] = next]
    /\ UNCHANGED failed

\* .expect() / .unwrap() on an Err: the invocation panics at pc[r]
Panic(r) ==
    /\ failed' = [failed EXCEPT ![r] = pc[r]]
    /\ pc' = [pc EXCEPT ![r] = "aborted"]
    /\ UNCHANGED steps

\* run returns a CommandResult
Return(r, o) ==
    /\ outcome' = [outcome EXCEPT ![r] = o]
    /\ outcomes' = [outcomes EXCEPT ![r] = @ + 1]
    /\ Goto(r, "done")

\* ---------------------------------------------------------------- actions
\* A new invocation of the command (the caller runs one at a time).
Start(r) ==
    /\ pc[r] \in {"idle", "done", "aborted"}
    /\ \A o \in Procs \ {r} : pc[o] \in {"idle", "done", "aborted"}
    /\ epoch < MaxRuns
    /\ epoch' = epoch + 1
    /\ \E i \in Inputs : inp' = [inp EXCEPT ![r] = i]
    /\ run' = [run EXCEPT ![r] = epoch + 1]
    /\ fs0' = [fs0 EXCEPT ![r] = fs]
    /\ path' = [path EXCEPT ![r] = <<>>]
    /\ config' = [config EXCEPT ![r] = NoConfig]
    /\ bin_dir' = [bin_dir EXCEPT ![r] = <<>>]
    /\ build_dir' = [build_dir EXCEPT ![r] = <<>>]
    /\ result' = [result EXCEPT ![r] = "none"]
    /\ outcome' = [outcome EXCEPT ![r] = NoOutcome]
    /\ spawned' = [spawned EXCEPT ![r] = NoProcess]
    /\ wrote' = [wrote EXCEPT ![r] = {}]
    /\ outcomes' = [outcomes EXCEPT ![r] = 0]
    /\ steps' = [steps EXCEPT ![r] = <<>>]
    /\ failed' = [failed EXCEPT ![r] = ""]
    /\ pc' = [pc EXCEPT ![r] = "canonicalize"]
    /\ UNCHANGED <<fs, op>>

\* lines 45-51: the directory is the "path" argument or the current
\* directory, canonicalized; a directory that does not exist is a panic
ResolvePath(r) ==
    /\ pc[r] = "canonicalize"
    /\ LET directory == IF inp[r].directory = <<>> THEN CurrentDir
                        ELSE inp[r].directory
           c == Canonicalize(fs, directory)
       IN  IF c.ok
           THEN /\ path' = [path EXCEPT ![r] = c.path]
                /\ Goto(r, "load_config")
           ELSE /\ Panic(r)
                /\ UNCHANGED path
    /\ UNCHANGED <<fs, epoch, op, inp, config, bin_dir, build_dir, result, outcome,
                   run, fs0, spawned, wrote, outcomes>>

\* smaug::config::load: the file must exist and parse
Load(f, config_path) ==
    IF config_path \in DOMAIN f /\ f[config_path].kind = "config"
    THEN [ok |-> TRUE, config |-> [name |-> f[config_path].a,
                                   version |-> f[config_path].b]]
    ELSE [ok |-> FALSE, config |-> NoConfig]

ConfigError(config_path) == [kind |-> "ConfigError", name |-> "", path |-> config_path]

\* LoadConfig with the error carrying the project directory instead of the
\* path of the configuration file
LoadConfigDirectoryInError(r) ==
    /\ pc[r] = "load_config"
    /\ LET config_path == Join(path[r], "Smaug.toml")
           l == Load(fs, config_path)
       IN  IF l.ok
           THEN /\ config' = [config EXCEPT ![r] = l.config]
                /\ Goto(r, "write_metadata")
                /\ UNCHANGED <<outcome, outcomes>>
           ELSE /\ Return(r, ConfigError(path[r]))
                /\ UNCHANGED config
    /\ UNCHANGED <<fs, epoch, op, inp, path, bin_dir, build_dir, result,
                   run, fs0, spawned, wrote>>

\* lines 53-58
LoadConfig(r) ==
    /\ pc[r] = "load_config"
    /\ LET config_path == Join(path[r], "Smaug.toml")
           l == Load(fs, config_path)
       IN  IF l.ok
           THEN /\ config' = [config EXCEPT ![r] = l.config]
                /\ Goto(r, "write_metadata")
                /\ UNCHANGED <<outcome, outcomes>>
           ELSE /\ Return(r, ConfigError(config_path))
                /\ UNCHANGED config
    /\ UNCHANGED <<fs, epoch, op, inp, path, bin_dir, build_dir, result,
                   run, fs0, spawned, wrote>>

\* game_metadata::from_config
Metadata(c) == Entry("metadata", c.name, c.version, 0)

\* lines 62-66: the metadata is written, or the write fails and run panics
WriteMetadata(r) ==
    /\ pc[r] = "write_metadata"
    /\ \E ok \in BOOLEAN :
          IF ok
          THEN /\ fs' = WriteFile(fs, Join(Join(path[r], "metadata"), "game_metadata.txt"),
                                  Metadata(config[r]))
               /\ Goto(r, "resolve_toolchain")
          ELSE /\ Panic(r)
               /\ UNCHANGED fs
    /\ UNCHANGED <<epoch, op, locals>>

\* dragonruby::configured_version: the installation directory of the
\* configured version, <<>> when that version is not installed
ConfiguredVersion(c) == IF c.version = InstalledVersion THEN InstallDir ELSE <<>>

DragonRubyNotFound == [kind |-> "ConfiguredDragonRubyNotFound", name |-> "", path |-> <<>>]

\* ResolveToolchain naming the staging directory after the whole project
\* path instead of its last component
ResolveToolchainFullPath(r) ==
    /\ pc[r] = "resolve_toolchain"
    /\ LET dragonruby == ConfiguredVersion(config[r])
       IN  IF dragonruby = <<>>
           THEN /\ Return(r, DragonRubyNotFound)
                /\ UNCHANGED <<bin_dir, build_dir>>
           ELSE /\ bin_dir' = [bin_dir EXCEPT ![r] = dragonruby]
                /\ build_dir' = [build_dir EXCEPT ![r] = dragonruby \o path[r]]
                /\ Goto(r, "stage_copy")
                /\ UNCHANGED <<outcome, outcomes>>
    /\ UNCHANGED <<fs, epoch, op, inp, path, config, result, run, fs0, spawned, wrote>>

\* ResolveToolchain staging into the installation directory without looking
\* at the result of the lookup
ResolveToolchainUnchecked(r) ==
    /\ pc[r] = "resolve_toolchain"
    /\ bin_dir' = [bin_dir EXCEPT ![r] = InstallDir]
    /\ build_dir' = [build_dir EXCEPT ![r] = Join(InstallDir, FileName(path[r]))]
    /\ Goto(r, "stage_copy")
    /\ UNCHANGED <<outcome, outcomes>>
    /\ UNCHANGED <<fs, epoch, op, inp, path, config, result, run, fs0, spawned, wrote>>

\* lines 68-74
ResolveToolchain(r) ==
    /\ pc[r] = "resolve_toolchain"
    /\ LET dragonruby == ConfiguredVersion(config[r])
       IN  IF dragonruby = <<>>
           THEN /\ Return(r, DragonRubyNotFound)
                /\ UNCHANGED <<bin_dir, build_dir>>
           ELSE /\ bin_dir' = [bin_dir EXCEPT ![r] = dragonruby]
                /\ build_dir' = [build_dir EXCEPT ![r] =
                                    Join(dragonruby, FileName(path[r]))]
                /\ Goto(r, "stage_copy")
                /\ UNCHANGED <<outcome, outcomes>>
    /\ UNCHANGED <<fs, epoch, op, inp, path, config, result, run, fs0, spawned, wrote>>

\* copy_directory(src, dst).expect(..): the copy succeeds, or it fails (a
\* missing source, a conflict, an I/O error part of the way) and run panics
Mirror(r, src, dst, next) ==
    LET c == CopyDirectory(fs, src, dst)
    IN  \E ok \in BOOLEAN :
           IF ok /\ c.ok
           THEN /\ fs' = c.fs
                /\ Goto(r, next)
           ELSE /\ \E K \in IF c.ok THEN PartialCopies(fs, src) ELSE {{}} :
                      fs' = CopyEntries(fs, src, dst, K)
                /\ Panic(r)

\* rm_rf::ensure_removed(p).expect(..): the path is removed, or the removal
\* fails and run panics
Remove(r, p, next) ==
    \E ok \in BOOLEAN :
       IF ok
       THEN /\ fs' = EnsureRemoved(fs, p)
            /\ Goto(r, next)
       ELSE /\ Panic(r)
            /\ UNCHANGED fs

\* StageCopy starting the process without clearing the staged logs and
\* exceptions
StageCopyThenSpawn(r) ==
    /\ pc[r] = "stage_copy"
    /\ Mirror(r, path[r], build_dir[r], "spawn")
    /\ UNCHANGED <<epoch, op, locals>>

\* line 76
StageCopy(r) ==
    /\ pc[r] = "stage_copy"
    /\ Mirror(r, path[r], build_dir[r], "rm_stage_logs")
    /\ UNCHANGED <<epoch, op, locals>>

\* RemoveStageLogs removing the project's logs instead of the staged ones
RemoveStageLogsLocal(r) ==
    /\ pc[r] = "rm_stage_logs"
    /\ Remove(r, Join(path[r], "logs"), "rm_stage_exceptions")
    /\ UNCHANGED <<epoch, op, locals>>

\* lines 78-81
RemoveStageLogs(r) ==
    /\ pc[r] = "rm_stage_logs"
    /\ Remove(r, Join(build_dir[r], "logs"), "rm_stage_exceptions")
    /\ UNCHANGED <<epoch, op, locals>>

\* lines 79-82
RemoveStageExceptions(r) ==
    /\ pc[r] = "rm_stage_exceptions"
    /\ Remove(r, Join(build_dir[r], "exceptions"), "spawn")
    /\ UNCHANGED <<epoch, op, locals>>

\* Spawn with a failed start treated as a process that exited with failure
SpawnFailureAsExit(r) ==
    /\ pc[r] = "spawn"
    /\ \E ok \in BOOLEAN :
          IF ok /\ Join(bin_dir[r], PublishName) \in DOMAIN fs
          THEN /\ spawned' = [spawned EXCEPT ![r] =
                    [bin    |-> Join(bin_dir[r], PublishName),
                     cwd    |-> bin_dir[r],
                     argv   |-> <<FileName(path[r])>> \o inp[r].args,
                     stdout |-> IF inp[r].json \/ inp[r].quiet THEN "null"
                                ELSE "inherit"]]
               /\ Goto(r, "wait")
               /\ UNCHANGED result
          ELSE /\ result' = [result EXCEPT ![r] = "failure"]
               /\ Goto(r, "teardown")
               /\ UNCHANGED spawned
    /\ UNCHANGED <<fs, epoch, op, inp, path, config, bin_dir, build_dir,
                   outcome, run, fs0, wrote, outcomes>>

\* Spawn not waiting for the process: run goes on to copy the builds
SpawnWithoutWait(r) ==
    /\ pc[r] = "spawn"
    /\ \E ok \in BOOLEAN :
          IF ok /\ Join(bin_dir[r], PublishName) \in DOMAIN fs
          THEN /\ spawned' = [spawned EXCEPT ![r] =
                    [bin    |-> Join(bin_dir[r], PublishName),
                     cwd    |-> bin_dir[r],
                     argv   |-> <<FileName(path[r])>> \o inp[r].args,
                     stdout |-> IF inp[r].json \/ inp[r].quiet THEN "null"
                                ELSE "inherit"]]
               /\ Goto(r, "copy_builds")
          ELSE /\ Panic(r)
               /\ UNCHANGED spawned
    /\ UNCHANGED <<fs, epoch, op, inp, path, config, bin_dir, build_dir, result,
                   outcome, run, fs0, wrote, outcomes>>

\* Spawn suppressing the output of the process only for the quiet flag
SpawnQuietOnly(r) ==
    /\ pc[r] = "spawn"
    /\ \E ok \in BOOLEAN :
          IF ok /\ Join(bin_dir[r], PublishName) \in DOMAIN fs
          THEN /\ spawned' = [spawned EXCEPT ![r] =
                    [bin    |-> Join(bin_dir[r], PublishName),
                     cwd    |-> bin_dir[r],
                     argv   |-> <<FileName(path[r])>> \o inp[r].args,
                     stdout |-> IF inp[r].quiet THEN "null" ELSE "inherit"]]
               /\ Goto(r, "wait")
          ELSE /\ Panic(r)
               /\ UNCHANGED spawned
    /\ UNCHANGED <<fs, epoch, op, inp, path, config, bin_dir, build_dir, result,
                   outcome, run, fs0, wrote, outcomes>>

\* lines 85-107: the process is started, or spawn fails and run panics
Spawn(r) ==
    /\ pc[r] = "spawn"
    /\ \E ok \in BOOLEAN :
          IF ok /\ Join(bin_dir[r], PublishName) \in DOMAIN fs
          THEN /\ spawned' = [spawned EXCEPT ![r] =
                    [bin    |-> Join(bin_dir[r], PublishName),
                     cwd    |-> bin_dir[r],
                     argv   |-> <<FileName(path[r])>> \o inp[r].args,
                     stdout |-> IF inp[r].json \/ inp[r].quiet THEN "null"
                                ELSE "inherit"]]
               /\ Goto(r, "wait")
          ELSE /\ Panic(r)
               /\ UNCHANGED spawned
    /\ UNCHANGED <<fs, epoch, op, inp, path, config, bin_dir, build_dir, result,
                   outcome, run, fs0, wrote, outcomes>>

\* Wait returning PublishError as soon as the process has exited with failure
WaitFailureReturns(r) ==
    /\ pc[r] = "wait"
    /\ \E W \in ToolchainOutputs(bin_dir[r], build_dir[r]) :
          /\ fs' = WriteAll(fs, {<<p, Output(run[r])>> : p \in W})
          /\ wrote' = [wrote EXCEPT ![r] = W]
    /\ \E status \in {"success", "failure", "error"} :
          IF status = "error"
          THEN /\ Panic(r)
               /\ UNCHANGED result
          ELSE /\ result' = [result EXCEPT ![r] = status]
               /\ Goto(r, IF status = "failure" THEN "report" ELSE "copy_builds")
    /\ UNCHANGED <<epoch, op, inp, path, config, bin_dir, build_dir, outcome,
                   run, fs0, spawned, outcomes>>

\* lines 108-109: the process writes its output and exits; wait returns its
\* status, or wait fails and run panics
Wait(r) ==
    /\ pc[r] = "wait"
    /\ \E W \in ToolchainOutputs(bin_dir[r], build_dir[r]) :
          /\ fs' = WriteAll(fs, {<<p, Output(run[r])>> : p \in W})
          /\ wrote' = [wrote EXCEPT ![r] = W]
    /\ \E status \in {"success", "failure", "error"} :
          IF status = "error"
          THEN /\ Panic(r)
               /\ UNCHANGED result
          ELSE /\ result' = [result EXCEPT ![r] = status]
               /\ Goto(r, "copy_builds")
    /\ UNCHANGED <<epoch, op, inp, path, config, bin_dir, build_dir, outcome,
                   run, fs0, spawned, outcomes>>

\* CopyBuilds reading the builds of the staged directory
CopyBuildsFromStaging(r) ==
    /\ pc[r] = "copy_builds"
    /\ Mirror(r, Join(build_dir[r], "builds"), Join(path[r], "builds"), "rm_local_logs")
    /\ UNCHANGED <<epoch, op, locals>>

\* lines 111-112
CopyBuilds(r) ==
    /\ pc[r] = "copy_builds"
    /\ Mirror(r, Join(bin_dir[r], "builds"), Join(path[r], "builds"), "rm_local_logs")
    /\ UNCHANGED <<epoch, op, locals>>

\* RemoveLocalLogs leaving the project's logs in place
RemoveLocalLogsSkipped(r) ==
    /\ pc[r] = "rm_local_logs"
    /\ Goto(r, "rm_local_exceptions")
    /\ UNCHANGED <<fs, epoch, op, locals>>

\* lines 114-115
RemoveLocalLogs(r) ==
    /\ pc[r] = "rm_local_logs"
    /\ Remove(r, Join(path[r], "logs"), "rm_local_exceptions")
    /\ UNCHANGED <<epoch, op, locals>>

\* lines 117-119
RemoveLocalExceptions(r) ==
    /\ pc[r] = "rm_local_exceptions"
    /\ Remove(r, Join(path[r], "exceptions"), "copy_logs")
    /\ UNCHANGED <<epoch, op, locals>>

\* copy_directory(src, dst) when src is a directory, nothing otherwise
MirrorIfDir(r, src, dst, next) ==
    IF IsDir(fs, src)
    THEN Mirror(r, src, dst, next)
    ELSE /\ Goto(r, next)
         /\ UNCHANGED fs

\* lines 121-124
CopyLogs(r) ==
    /\ pc[r] = "copy_logs"
    /\ MirrorIfDir(r, Join(build_dir[r], "logs"), Join(path[r], "logs"), "copy_exceptions")
    /\ UNCHANGED <<epoch, op, locals>>

\* lines 126-129
CopyExceptions(r) ==
    /\ pc[r] = "copy_exceptions"
    /\ MirrorIfDir(r, Join(build_dir[r], "exceptions"), Join(path[r], "exceptions"),
                   "teardown")
    /\ UNCHANGED <<epoch, op, locals>>

\* Teardown removing the project directory instead of the staged one
TeardownProject(r) ==
    /\ pc[r] = "teardown"
    /\ Remove(r, path[r], "report")
    /\ UNCHANGED <<epoch, op, locals>>

\* line 131
Teardown(r) ==
    /\ pc[r] = "teardown"
    /\ Remove(r, build_dir[r], "report")
    /\ UNCHANGED <<epoch, op, locals>>

PublishResult(name) == [kind |-> "PublishResult", name |-> name, path |-> <<>>]

PublishError(name) == [kind |-> "PublishError", name |-> name, path |-> <<>>]

\* Report ignoring the exit status
ReportAlwaysOk(r) ==
    /\ pc[r] = "report"
    /\ Return(r, PublishResult(config[r].name))
    /\ UNCHANGED <<fs, epoch, op, inp, path, config, bin_dir, build_dir, result,
                   run, fs0, spawned, wrote>>

\* lines 133-141
Report(r) ==
    /\ pc[r] = "report"
    /\ IF result[r] = "success"
       THEN Return(r, PublishResult(config[r].name))
       ELSE Return(r, PublishError(config[r].name))
    /\ UNCHANGED <<fs, epoch, op, inp, path, config, bin_dir, build_dir, result,
                   run, fs0, spawned, wrote>>

\* Publish::run, one statement at a time
Run(r) ==
    \/ ResolvePath(r)
    \/ LoadConfig(r)
    \/ WriteMetadata(r)
    \/ ResolveToolchain(r)
    \/ StageCopy(r)
    \/ RemoveStageLogs(r)
    \/ RemoveStageExceptions(r)
    \/ Spawn(r)
    \/ Wait(r)
    \/ CopyBuilds(r)
    \/ RemoveLocalLogs(r)
    \/ RemoveLocalExceptions(r)
    \/ CopyLogs(r)
    \/ CopyExceptions(r)
    \/ Teardown(r)
    \/ Report(r)

Next == \E r \in Runners : Start(r) \/ Run(r)

Spec == Init /\ [][Next]_vars

\* the statements run executes by itself: all but the return of wait, which
\* needs the process to exit
OwnStep(r) ==
    \/ ResolvePath(r)
    \/ LoadConfig(r)
    \/ WriteMetadata(r)
    \/ ResolveToolchain(r)
    \/ StageCopy(r)
    \/ RemoveStageLogs(r)
    \/ RemoveStageExceptions(r)
    \/ Spawn(r)
    \/ CopyBuilds(r)
    \/ RemoveLocalLogs(r)
    \/ RemoveLocalExceptions(r)
    \/ CopyLogs(r)
    \/ CopyExceptions(r)
    \/ Teardown(r)
    \/ Report(r)

\* one invocation; run keeps executing its own statements (it is sequential
\* code that nothing suspends), while the process may run forever
NextOnce == \E r \in Runners : (epoch = 0 /\ Start(r)) \/ Run(r)

SpecBlocking ==
    Init /\ [][NextOnce]_vars /\ \A r \in Runners : WF_vars(OwnStep(r))


\* ------------------------------------------------ operations on their own
\* rm_rf::ensure_removed and copy_directory applied to small trees: two
\* directories a and b, each absent or holding an entry f (a file or a
\* directory) and a directory d with a file g
Contents == {Entry("data", "x", "", 0), Entry("data", "y", "", 0)}

Leaf(root) == {{}} \cup {{<<Join(root, "f"), e>>} : e \in Contents \cup {Dir}}

Sub(root) ==
    {{}, {<<Join(root, "d"), Dir>>}} \cup
    {{<<Join(root, "d"), Dir>>, <<Join(Join(root, "d"), "g"), e>>} : e \in Contents}

Side(root) == {{}} \cup {{<<root, Dir>>} \cup l \cup s : l \in Leaf(root), s \in Sub(root)}

TreeOf(S) == [p \in {x[1] : x \in S} |-> (CHOOSE x \in S : x[1] = p)[2]]

Trees == {TreeOf(a \cup b) : a \in Side(<<"a">>), b \in Side(<<"b">>)}

ClearPaths ==
    { <<"a">>, <<"a", "f">>, <<"a", "d">>, <<"b">>, <<"b", "d", "g">>, <<"c">> }

MirrorPairs ==
    { <<<<"a">>, <<"b">>>>, <<<<"b">>, <<"a">>>>,
      <<<<"a", "d">>, <<"b", "d">>>>, <<<<"a", "f">>, <<"b", "f">>>>,
      <<<<"c">>, <<"b">>>> }

\* a cleaner that, like std::fs::remove_dir_all, reports a missing path
CleanerFailsOnMissing(f, p) == [ok |-> p \in DOMAIN f, fs |-> EnsureRemoved(f, p)]

\* rm_rf::ensure_removed(p): Ok(()) whether or not anything was at p
Cleaner(f, p) == [ok |-> TRUE, fs |-> EnsureRemoved(f, p)]

\* no invocation has started
Idle ==
    /\ epoch = 0
    /\ pc = [r \in Procs |-> "idle"]
    /\ inp = [r \in Procs |-> NoInput]
    /\ path = [r \in Procs |-> <<>>]
    /\ config = [r \in Procs |-> NoConfig]
    /\ bin_dir = [r \in Procs |-> <<>>]
    /\ build_dir = [r \in Procs |-> <<>>]
    /\ result = [r \in Procs |-> "none"]
    /\ outcome = [r \in Procs |-> NoOutcome]
    /\ run = [r \in Procs |-> 0]
    /\ fs0 = [r \in Procs |-> Fs0]
    /\ steps = [r \in Procs |-> <<>>]
    /\ failed = [r \in Procs |-> ""]
    /\ spawned = [r \in Procs |-> NoProcess]
    /\ wrote = [r \in Procs |-> {}]
    /\ outcomes = [r \in Procs |-> 0]
    /\ op = NoOp

InitFs == fs \in Trees /\ Idle

\* rm_rf::ensure_removed(p) on its own
ClearPath(p) ==
    LET c     == Cleaner(fs, p)
        again == op.kind = "clear" /\ op.src = p
    IN  /\ fs' = c.fs
        /\ op' = [kind |-> "clear", ok |-> c.ok, src |-> p, dst |-> <<>>,
                  before |-> fs, again |-> again,
                  first |-> IF again THEN op.before ELSE Fs0,
                  okFirst |-> IF again THEN op.ok ELSE TRUE]
        /\ UNCHANGED <<epoch, pc, locals, steps, failed>>

\* copy_directory(src, dst) on its own: it succeeds, or it fails (a missing
\* source, a conflict, an I/O error part of the way)
MirrorTree(src, dst) ==
    LET c == CopyDirectory(fs, src, dst)
    IN  \E ok \in BOOLEAN :
           /\ IF ok /\ c.ok
              THEN fs' = c.fs
              ELSE \E K \in IF c.ok THEN PartialCopies(fs, src) ELSE {{}} :
                      fs' = CopyEntries(fs, src, dst, K)
           /\ op' = [kind |-> "mirror", ok |-> ok /\ c.ok, src |-> src, dst |-> dst,
                     before |-> fs, again |-> FALSE, first |-> Fs0, okFirst |-> TRUE]
           /\ UNCHANGED <<epoch, pc, locals, steps, failed>>

NextFs ==
    \/ \E p \in ClearPaths : ClearPath(p)
    \/ \E m \in MirrorPairs : MirrorTree(m[1], m[2])

SpecFs == InitFs /\ [][NextFs]_vars

\* --------------------------------------------------- concurrent invocations
\* Two invocations that the caller does not serialize: one for the project
\* in the current directory, one for a second project that is given by its
\* path and has either another base name or the same one.  Both projects
\* are configured for the installed DragonRuby.
OtherProjects == { <<"work", "other">>, <<"work", "game">> }

OtherName == "Breakout"

ConcurrentTree(other) ==
    LET first == InitialTree(ConfigFile(ProjectName, InstalledVersion))
        added == { <<"work">>, other, Join(other, "Smaug.toml"), Join(other, "main.rb") }
    IN  [p \in DOMAIN first \cup added |->
            IF p \in DOMAIN first THEN first[p]
            ELSE IF p = Join(other, "Smaug.toml")
                 THEN ConfigFile(OtherName, InstalledVersion)
            ELSE IF p = Join(other, "main.rb") THEN Source
            ELSE Dir]

InitConcurrent(other) == fs = ConcurrentTree(other) /\ Idle

\* the command line of invocation r
ConcurrentInput(f, r) ==
    IF r = 1 THEN Input(<<>>, FALSE, FALSE, <<>>)
    ELSE Input(CHOOSE other \in OtherProjects : other \in DOMAIN f, TRUE, FALSE, <<>>)

\* the caller starts both invocations without waiting for either: from here
\* on their statements interleave in every way (an invocation that has not
\* executed a statement yet is no different from one not started yet)
StartConcurrent ==
    /\ epoch = 0
    /\ \A r \in Procs : pc[r] = "idle"
    /\ epoch' = Cardinality(Procs)
    /\ inp' = [r \in Procs |-> ConcurrentInput(fs, r)]
    /\ run' = [r \in Procs |-> r]
    /\ fs0' = [r \in Procs |-> fs]
    /\ pc' = [r \in Procs |-> "canonicalize"]
    /\ UNCHANGED <<fs, op, path, config, bin_dir, build_dir, result, outcome,
                   spawned, wrote, outcomes, steps, failed>>

NextConcurrent == StartConcurrent \/ \E r \in Procs : Run(r)

\* the second project has another base name
SpecDistinctNames == InitConcurrent(<<"work", "other">>) /\ [][NextConcurrent]_vars

\* the second project has the base name of the first
SpecSameName == InitConcurrent(<<"work", "game">>) /\ [][NextConcurrent]_vars

\* ------------------------------------------------------------- properties
Range(q) == {q[i] : i \in 1..Len(q)}

Completed(r, step) == step \in Range(steps[r])

Finished(r) == pc[r] \in {"done", "aborted"}

\* Stage: the project is mirrored and the staged logs and exceptions cleared
StageCompleted(r) == Completed(r, "rm_stage_exceptions")

ReachedReport(r) == Completed(r, "report")

\* the statements after Stage and before Teardown
AfterStage ==
    {"spawn", "wait", "copy_builds", "rm_local_logs", "rm_local_exceptions",
     "copy_logs", "copy_exceptions"}

AbsentOrEmpty(f, p) == Under(f, p) \subseteq {p}

\* the files the process of r wrote below directory d, relative to d
WroteUnder(r, d) ==
    {<<SubSeq(p, Len(d) + 1, Len(p)), Output(run[r])>> :
        p \in {q \in wrote[r] : IsPrefix(d, q)}}

\* the part of a file system below the installation directory
Installation(f) == [p \in Under(f, InstallDir) |-> f[p]]

\* C1: for every run whose Stage completed, whether Invoke succeeds or
\* fails, the staging directory does not exist once the run has finished.
C1_StagingGoneWhenFinished ==
    \A r \in Procs :
        (Finished(r) /\ StageCompleted(r)) => build_dir[r] \notin DOMAIN fs

\* C2: when a statement after Stage fails, Teardown is still attempted.
C2_TeardownAttemptedAfterFailure ==
    \A r \in Procs :
        (pc[r] = "aborted" /\ failed[r] \in AfterStage) => Completed(r, "teardown")

C4_OutcomeCorrect ==
    \A r \in Procs :
        ReachedReport(r) =>
            /\ result[r] \in {"success", "failure"}
            /\ result[r] = "success" =>
                   outcome[r] = PublishResult(fs[Join(path[r], "Smaug.toml")].a)
            /\ result[r] = "failure" =>
                   outcome[r] = PublishError(fs[Join(path[r], "Smaug.toml")].a)

C4_Witness ==
    \E r \in Procs :
        ReachedReport(r) /\ result[r] = "failure" /\ outcome[r].kind = "PublishError"

\* C5 as stated: when the process is started, the logs and exceptions
\* directories of the staged directory and of the project are absent or empty.
C5_AllSideChannelsFresh ==
    \A r \in Procs :
        pc[r] = "wait" =>
            /\ AbsentOrEmpty(fs, Join(build_dir[r], "logs"))
            /\ AbsentOrEmpty(fs, Join(build_dir[r], "exceptions"))
            /\ AbsentOrEmpty(fs, Join(path[r], "logs"))
            /\ AbsentOrEmpty(fs, Join(path[r], "exceptions"))

\* C5 as amended: when the process is started, the logs and exceptions
\* directories of the staged directory are absent; those of the project are
\* absent once Reconcile has cleared them, before the staged ones are
\* mirrored back.
C5_StagedSideChannelsFresh ==
    \A r \in Procs :
        /\ pc[r] = "wait" =>
              /\ Join(build_dir[r], "logs") \notin DOMAIN fs
              /\ Join(build_dir[r], "exceptions") \notin DOMAIN fs
        /\ pc[r] = "copy_logs" =>
              /\ Join(path[r], "logs") \notin DOMAIN fs
              /\ Join(path[r], "exceptions") \notin DOMAIN fs

C5_Witness ==
    \E r \in Procs :
        /\ pc[r] = "wait"
        /\ FilesUnder(fs0[r], Join(path[r], "logs")) # {}
        /\ FilesUnder(fs, Join(path[r], "logs")) # {}
        /\ build_dir[r] \in DOMAIN fs

\* C6: after a run that reaches Report the project's logs (exceptions) hold
\* exactly the files the process wrote into the staged logs (exceptions)
\* during this run, and the directory is absent if it wrote none.
C6_NoStaleSideChannel ==
    \A r \in Procs :
        ReachedReport(r) =>
            \A d \in {"logs", "exceptions"} :
                /\ RelFiles(fs, Join(path[r], d)) = WroteUnder(r, Join(build_dir[r], d))
                /\ WroteUnder(r, Join(build_dir[r], d)) = {} =>
                       Join(path[r], d) \notin DOMAIN fs

C6_Witness ==
    \E r \in Procs :
        /\ ReachedReport(r)
        /\ FilesUnder(fs0[r], Join(path[r], "logs")) # {}
        /\ WroteUnder(r, Join(build_dir[r], "logs")) # {}
        /\ WroteUnder(r, Join(build_dir[r], "exceptions")) = {}

\* the configuration file of r's project, as it was when the run started
ConfigAtStart(r) == Load(fs0[r], Join(CurrentDir, "Smaug.toml"))

C8_ConfigFailure ==
    \A r \in Procs :
        (Completed(r, "canonicalize") /\ ~ConfigAtStart(r).ok /\ pc[r] # "load_config") =>
            /\ pc[r] = "done"
            /\ outcome[r] = ConfigError(<<"home", "game", "Smaug.toml">>)
            /\ outcomes[r] = 1
            /\ steps[r] = <<"canonicalize", "load_config">>
            /\ fs = fs0[r]
            /\ spawned[r] = NoProcess

C8_Witness ==
    \E r \in Procs :
        /\ outcome[r].kind = "ConfigError"
        /\ inp[r].directory = <<"home", ".", "game">>

\* C9: every invocation returns exactly one outcome, on every path through
\* the run, including those where a filesystem step or the start of the
\* process fails (stated for the runs whose project directory was found).
C9_OutcomeExactlyOnce ==
    \A r \in Procs :
        (Finished(r) /\ failed[r] # "canonicalize") =>
            /\ outcomes[r] = 1
            /\ outcome[r].kind \in {"PublishResult", "ConfigError",
                                    "ConfiguredDragonRubyNotFound", "PublishError"}

\* C10: PublishError is returned only by runs whose process was started and
\* exited with a failure status; a run whose process could not be started
\* returns neither PublishError nor success.
C10_StartFailureDistinct ==
    \A r \in Procs :
        /\ outcome[r].kind = "PublishError" =>
              spawned[r] # NoProcess /\ result[r] = "failure"
        /\ (Completed(r, "rm_stage_exceptions") /\ spawned[r] = NoProcess
               /\ pc[r] # "spawn") =>
              outcome[r] = NoOutcome /\ outcomes[r] = 0 /\ pc[r] = "aborted"

C10_Witness ==
    \E r \in Procs :
        /\ failed[r] = "spawn"
        /\ spawned[r] = NoProcess
        /\ StageCompleted(r)

\* the statements of run, in the order of the source
FullOrder ==
    <<"canonicalize", "load_config", "write_metadata", "resolve_toolchain",
      "stage_copy", "rm_stage_logs", "rm_stage_exceptions", "spawn", "wait",
      "copy_builds", "rm_local_logs", "rm_local_exceptions", "copy_logs",
      "copy_exceptions", "teardown", "report">>

Started(r) == pc[r] # "idle"

\* C12: in every run the steps occur in the fixed order ResolveConfig,
\* WriteMetadata, ResolveToolchain, Stage (mirror, then clear), Invoke,
\* Reconcile (builds, clear local, mirror side channels), Teardown, Report;
\* each at most once, none before its predecessor has completed.
C12_StepOrder ==
    \A r \in Procs :
        Started(r) =>
            /\ Len(steps[r]) <= Len(FullOrder)
            /\ steps[r] = SubSeq(FullOrder, 1, Len(steps[r]))
            /\ pc[r] \notin {"done", "aborted"} => pc[r] = FullOrder[Len(steps[r]) + 1]
            /\ pc[r] = "aborted" => failed[r] = FullOrder[Len(steps[r]) + 1]
            /\ pc[r] = "done" =>
                  steps[r][Len(steps[r])] \in {"load_config", "resolve_toolchain", "report"}

C12_Witness == \E r \in Procs : pc[r] = "done" /\ steps[r] = FullOrder

\* C17: the process started is <install_dir>/dragonruby-publish, in
\* <install_dir>, with the base name of the staged directory followed by the
\* pass-through arguments; its output is suppressed exactly when json or
\* quiet is set.
C17_InvocationSurface ==
    \A r \in Procs :
        spawned[r] # NoProcess =>
            /\ spawned[r].bin = <<"tc", "dragonruby-publish">>
            /\ spawned[r].cwd = <<"tc">>
            /\ Len(spawned[r].argv) = 1 + Len(inp[r].args)
            /\ spawned[r].argv[1] = build_dir[r][Len(build_dir[r])]
            /\ SubSeq(spawned[r].argv, 2, Len(spawned[r].argv)) = inp[r].args
            /\ (spawned[r].stdout = "null") = (inp[r].json \/ inp[r].quiet)
            /\ (spawned[r].stdout = "inherit") = ~(inp[r].json \/ inp[r].quiet)

C17_Witness ==
    \E r \in Procs :
        /\ spawned[r] # NoProcess
        /\ inp[r].json /\ ~inp[r].quiet
        /\ inp[r].args # <<>>
        /\ spawned[r].stdout = "null"

\* C18: a process that exited with failure does not cut the run short:
\* Reconcile and Teardown run as after a success (builds mirrored, project
\* logs and exceptions cleared and refilled from the staged ones, staging
\* removed) and only then PublishError is returned.
C18_FailureRunsToTheEnd ==
    \A r \in Procs :
        /\ (Completed(r, "wait") /\ ~Finished(r) /\ pc[r] # "report") =>
              outcome[r] = NoOutcome
        /\ (pc[r] = "done" /\ result[r] \in {"success", "failure"}) =>
              /\ steps[r] = FullOrder
              /\ build_dir[r] \notin DOMAIN fs
              /\ RelFiles(fs, Join(bin_dir[r], "builds"))
                    \subseteq RelFiles(fs, Join(path[r], "builds"))
              /\ \A d \in {"logs", "exceptions"} :
                    RelFiles(fs, Join(path[r], d)) = WroteUnder(r, Join(build_dir[r], d))
              /\ (outcome[r].kind = "PublishError") = (result[r] = "failure")

C18_Witness ==
    \E r \in Procs :
        /\ pc[r] = "done" /\ outcome[r].kind = "PublishError"
        /\ WroteUnder(r, Join(bin_dir[r], "builds")) # {}
        /\ WroteUnder(r, Join(build_dir[r], "logs")) # {}

\* the part of the project a run may change: the metadata file (and its
\* directory) and what is below builds, logs and exceptions
MayChange(root, q) ==
    \/ q \in {Join(root, "metadata"), Join(Join(root, "metadata"), "game_metadata.txt")}
    \/ \E d \in {"builds", "logs", "exceptions"} : IsPrefix(Join(root, d), q)

\* C19: within the project root a run creates, changes or removes only
\* metadata/game_metadata.txt and the contents of builds, logs and
\* exceptions; every other file of the project is as before the run.
C19_ProjectFrame ==
    \A r \in Procs :
        (Started(r) /\ path[r] # <<>>) =>
            \A q \in Under(fs, path[r]) \cup Under(fs0[r], path[r]) :
                ~MayChange(path[r], q) =>
                    /\ q \in DOMAIN fs /\ q \in DOMAIN fs0[r]
                    /\ fs[q] = fs0[r][q]

C19_Witness ==
    \E r \in Procs :
        /\ pc[r] = "done" /\ outcome[r].kind = "PublishError"
        /\ RelFiles(fs, Join(path[r], "builds")) # RelFiles(fs0[r], Join(path[r], "builds"))
        /\ Join(path[r], "main.rb") \in DOMAIN fs

\* the statements after Invoke
AfterInvoke ==
    {"copy_builds", "rm_local_logs", "rm_local_exceptions", "copy_logs",
     "copy_exceptions", "teardown", "report"}

\* C14: run never starts Reconcile, Teardown or Report before the process
\* has exited; while the process has not exited the run stays in Invoke
\* with no outcome; once the process has exited the run reaches Report,
\* unless a step fails.
C14_BlockingInvocation ==
    /\ [](\A r \in Procs :
            /\ (pc[r] \in AfterInvoke \/ Completed(r, "copy_builds")) =>
                  /\ result[r] \in {"success", "failure"}
                  /\ Completed(r, "wait")
            /\ pc[r] = "wait" =>
                  /\ outcome[r] = NoOutcome /\ result[r] = "none"
                  /\ ~ENABLED OwnStep(r))
    /\ \A r \in Runners :
          (pc[r] = "copy_builds") ~> (ReachedReport(r) \/ pc[r] = "aborted")

C14_Witness ==
    \E r \in Procs :
        /\ Completed(r, "wait") /\ ReachedReport(r)
        /\ outcome[r].kind = "PublishResult"

\* C15: idempotent cleanup.  Clearing a path that does not exist succeeds
\* and leaves the file system as it was; clearing the same path a second
\* time in a row gives the file system and the result of the first time.
C15_IdempotentCleanup ==
    op.kind = "clear" =>
        /\ op.src \notin DOMAIN op.before => (op.ok /\ fs = op.before)
        /\ op.again => (fs = op.before /\ op.ok = op.okFirst)

\* a directory with something in it was cleared, then cleared again
C15_Witness ==
    /\ op.kind = "clear" /\ op.again
    /\ op.src \in DOMAIN op.first
    /\ Under(op.first, op.src) # {op.src}
    /\ op.src \notin DOMAIN fs

\* C16: mirror completeness.  After a successful mirror the destination
\* holds, at the relative path of every file of the source, a file with the
\* contents of the source (whatever the destination held there before), and
\* the source tree is what it was.
C16_MirrorComplete ==
    (op.kind = "mirror" /\ op.ok) =>
        /\ \A q \in FilesUnder(op.before, op.src) :
              LET t == Rebase(q, op.src, op.dst)
              IN  t \in DOMAIN fs /\ fs[t] = op.before[q]
        /\ RelFiles(op.before, op.src) \subseteq RelFiles(fs, op.dst)
        /\ Under(fs, op.src) = Under(op.before, op.src)
        /\ \A q \in Under(fs, op.src) : fs[q] = op.before[q]

\* a successful mirror over a destination that held a different file at a
\* path of the source, and a file the source does not have
C16_Witness ==
    /\ op.kind = "mirror" /\ op.ok
    /\ \E q \in FilesUnder(op.before, op.src) :
          LET t == Rebase(q, op.src, op.dst)
          IN  /\ t \in DOMAIN op.before
              /\ op.before[t] # op.before[q]
    /\ \E t \in FilesUnder(op.before, op.dst) :
          /\ op.src \o SubSeq(t, Len(op.dst) + 1, Len(t)) \notin DOMAIN op.before
          /\ t \in DOMAIN fs

\* C11: staging isolation.  Two invocations for projects with different
\* base names, interleaved in any way, do not meet in the installation
\* directory: no file that the process of one invocation wrote is below a
\* directory that the other invocation reads, and the builds of a project
\* whose invocation reached Report hold only the artifacts of its own run.
C11_StagingIsolation ==
    \A r \in Procs :
        /\ \A o \in Procs \ {r} :
              Completed(o, "copy_builds") =>
                  \A q \in wrote[r] : ~IsPrefix(Join(bin_dir[o], "builds"), q)
        /\ ReachedReport(r) =>
              \A q \in FilesUnder(fs, Join(path[r], "builds")) :
                  fs[q] = Output(run[r])

\* C13: no lock on a shared staging path.  Two concurrent invocations for
\* projects with the same base name compute the same staging path, and the
\* Stage copy or the Teardown of one is never held back while the other is
\* between its Stage and its Teardown.
C13_SharedStagingUnlocked ==
    \A r \in Procs : \A o \in Procs \ {r} :
        /\ (build_dir[r] # <<>> /\ build_dir[o] # <<>>) =>
              /\ build_dir[r] = build_dir[o]
              /\ path[r] # path[o]
        /\ (pc[r] = "stage_copy" /\ pc[o] \in AfterStage) => ENABLED StageCopy(r)
        /\ (pc[r] = "teardown" /\ pc[o] \in AfterStage) => ENABLED Teardown(r)

\* the process of one invocation is running and the staging directory it
\* was started on has been removed by the Teardown of the other invocation
C13_Witness ==
    \E r \in Procs : \E o \in Procs \ {r} :
        /\ pc[o] = "wait"
        /\ StageCompleted(o)
        /\ Completed(r, "teardown")
        /\ build_dir[o] \notin DOMAIN fs
====
